---------------------------- MODULE Spec2Model ----------------------------
(***************************************************************************)
(* RustSpatial: vertices, lines, paths and the distance functions.         *)
(*                                                                         *)
(* f64 values are modelled as decimal fixed-point numbers with SCALE units *)
(* per 1.0, every operation rounding its exact result to the nearest unit  *)
(* (as IEEE-754 rounds to the nearest representable value), plus the one   *)
(* non-number NaN, which is unequal to everything, itself included, and    *)
(* which every operation propagates.                                       *)
(***************************************************************************)
EXTENDS Integers, Sequences, FiniteSets, TLC

(***************************************************************************)
(* f64                                                                     *)
(***************************************************************************)

\* Units per 1.0: the resolution of the modelled f64.
SCALE == 10000

\* The decimal digits of SCALE: long division brings them down one at a
\* time, so that no intermediate leaves the 32-bit integers.
DIGITS == 4

Abs(x) == IF x < 0 THEN -x ELSE x

Sgn(a, b) == IF (a < 0) = (b < 0) THEN 1 ELSE -1

\* a / b rounded to the nearest integer, ties away from zero (b > 0).
RDiv(a, b) ==
    LET q == Abs(a) \div b
        r == Abs(a) % b
        m == IF 2 * r >= b THEN q + 1 ELSE q
    IN  IF a < 0 THEN -m ELSE m

\* a * b / SCALE of two non-negative unit counts, rounded to the nearest unit.
MulUnits(a, b) ==
    LET ah == a \div SCALE
        al == a % SCALE
        bh == b \div SCALE
        bl == b % SCALE
    IN  ah * bh * SCALE + ah * bl + al * bh + RDiv(al * bl, SCALE)

\* Long division by b: the quotient q and the remainder r so far, n more
\* decimal digits to bring down.
RECURSIVE LongDiv(_, _, _, _)
LongDiv(q, r, b, n) ==
    IF n = 0 THEN [q |-> q, r |-> r]
    ELSE LongDiv(q * 10 + (r * 10) \div b, (r * 10) % b, b, n - 1)

\* Floor of a * SCALE / b of two non-negative unit counts (b > 0), and the
\* remainder.
DivFloor(a, b) == LongDiv(a \div b, a % b, b, DIGITS)

\* a * SCALE / b rounded to the nearest unit.
DivUnits(a, b) ==
    LET d == DivFloor(a, b)
    IN  IF 2 * d.r >= b THEN d.q + 1 ELSE d.q

\* An f64: a number of v units, or NaN.
F(v) == [nan |-> FALSE, v |-> v]

NaN == [nan |-> TRUE, v |-> 0]

\* The f64 literal n.0
Num(n) == F(n * SCALE)

\* f64 == and < : false whenever an operand is NaN.
FEq(a, b) == ~a.nan /\ ~b.nan /\ a.v = b.v

FLt(a, b) == ~a.nan /\ ~b.nan /\ a.v < b.v

FAdd(a, b) == IF a.nan \/ b.nan THEN NaN ELSE F(a.v + b.v)

FSub(a, b) == IF a.nan \/ b.nan THEN NaN ELSE F(a.v - b.v)

FAbs(a) == IF a.nan THEN NaN ELSE F(Abs(a.v))

FMul(a, b) ==
    IF a.nan \/ b.nan THEN NaN
    ELSE F(Sgn(a.v, b.v) * MulUnits(Abs(a.v), Abs(b.v)))

\* x / 0 is not a finite number in f64; the model has NaN for it.
FDiv(a, b) ==
    IF a.nan \/ b.nan \/ b.v = 0 THEN NaN
    ELSE F(Sgn(a.v, b.v) * DivUnits(Abs(a.v), Abs(b.v)))

\* f64::powi(2)
FPowi2(a) == FMul(a, a)

\* Newton's iteration for the floor of the square root of n * SCALE, from a
\* start x that is not below it.
RECURSIVE SqrtNewton(_, _)
SqrtNewton(n, x) ==
    LET y == (x + DivFloor(n, x).q) \div 2
    IN  IF y >= x THEN x ELSE SqrtNewton(n, y)

\* sqrt(n / SCALE) in units, correctly rounded.
SqrtUnits(n) ==
    IF n = 0 THEN 0
    ELSE LET r == SqrtNewton(n, (n + SCALE) \div 2 + 1)
             d == DivFloor(n, r + 1)
         IN  IF d.q = r /\ d.r > 0 THEN r + 1 ELSE r

\* f64::sqrt: NaN for a negative number.
FSqrt(a) == IF a.nan \/ a.v < 0 THEN NaN ELSE F(SqrtUnits(a.v))

\* std::f64::consts::PI, in units.
PI_UNITS == 31416

\* Signed a * b / SCALE on unit counts.
SMul(a, b) == Sgn(a, b) * MulUnits(Abs(a), Abs(b))

\* Signed a * SCALE / b on unit counts (b # 0).
SDiv(a, b) == Sgn(a, b) * DivUnits(Abs(a), Abs(b))

\* The Taylor series of sin and cos: the sum acc so far, the last term of
\* degree k, until the terms vanish at the model's resolution.
RECURSIVE TrigSeries(_, _, _, _)
TrigSeries(x, term, k, acc) ==
    LET next == -RDiv(SMul(SMul(term, x), x), (k + 1) * (k + 2))
    IN  IF next = 0 THEN acc ELSE TrigSeries(x, next, k + 2, acc + next)

\* An angle brought into [-PI, PI] by whole turns.
RECURSIVE WrapAngle(_)
WrapAngle(x) ==
    IF x > PI_UNITS THEN WrapAngle(x - 2 * PI_UNITS)
    ELSE IF x < -PI_UNITS THEN WrapAngle(x + 2 * PI_UNITS)
    ELSE x

SinUnits(x) ==
    LET w == WrapAngle(x)
        y == IF w > PI_UNITS \div 2 THEN PI_UNITS - w
             ELSE IF w < -(PI_UNITS \div 2) THEN -PI_UNITS - w
             ELSE w
    IN  TrigSeries(y, y, 1, y)

CosUnits(x) ==
    LET w == WrapAngle(x)
    IN  IF w > PI_UNITS \div 2
        THEN -TrigSeries(PI_UNITS - w, SCALE, 0, SCALE)
        ELSE IF w < -(PI_UNITS \div 2)
        THEN -TrigSeries(-PI_UNITS - w, SCALE, 0, SCALE)
        ELSE TrigSeries(w, SCALE, 0, SCALE)

\* f64::sin, f64::cos, f64::tan
FSin(a) == IF a.nan THEN NaN ELSE F(SinUnits(a.v))

FCos(a) == IF a.nan THEN NaN ELSE F(CosUnits(a.v))

FTan(a) == FDiv(FSin(a), FCos(a))

\* The series of atan for a small argument: x - x^3/3 + x^5/5 - ...
RECURSIVE AtanSeries(_, _, _, _)
AtanSeries(x2, power, k, acc) ==
    LET next == -SMul(power, x2)
    IN  IF next = 0 THEN acc
        ELSE AtanSeries(x2, next, k + 2, acc + RDiv(next, k + 2))

\* atan of a unit count: by oddness, atan(x) = PI/2 - atan(1/x) above 1,
\* and the half-angle formula atan(x) = 2 atan(x / (1 + sqrt(1 + x^2)))
\* above 1/2.
RECURSIVE AtanUnits(_)
AtanUnits(x) ==
    IF x < 0 THEN -AtanUnits(-x)
    ELSE IF x > SCALE THEN PI_UNITS \div 2 - AtanUnits(SDiv(SCALE, x))
    ELSE IF 2 * x > SCALE
    THEN 2 * AtanUnits(SDiv(x, SCALE + SqrtUnits(SCALE + SMul(x, x))))
    ELSE AtanSeries(SMul(x, x), x, 1, x)

\* f64::atan
FAtan(a) == IF a.nan THEN NaN ELSE F(AtanUnits(a.v))

\* f64::atan2, y.atan2(x): the angle of the point (x, y).
FAtan2(y, x) ==
    IF y.nan \/ x.nan THEN NaN
    ELSE IF x.v > 0 THEN F(AtanUnits(SDiv(y.v, x.v)))
    ELSE IF x.v < 0
    THEN F(AtanUnits(SDiv(y.v, x.v)) + (IF y.v >= 0 THEN PI_UNITS ELSE -PI_UNITS))
    ELSE IF y.v > 0 THEN F(PI_UNITS \div 2)
    ELSE IF y.v < 0 THEN F(-(PI_UNITS \div 2))
    ELSE F(0)

(***************************************************************************)
(* Results                                                                 *)
(***************************************************************************)

Ok(x) == [ok |-> TRUE, val |-> x]

Err(e) == [ok |-> FALSE, err |-> e]

\* No call made yet.
None == [called |-> FALSE]

(***************************************************************************)
(* geometries/vertex.rs                                                    *)
(***************************************************************************)

Vertex_new(latitude, longitude) ==
    [latitude |-> latitude, longitude |-> longitude]

\* impl PartialEq for Vertex: f64 == on both fields.
Vertex_eq(a, b) ==
    FEq(a.latitude, b.latitude) /\ FEq(a.longitude, b.longitude)

\* The format {:.6} of an f64: sign, integer digits, six decimals.
Fmt6(x) ==
    IF x.nan THEN [text |-> "NaN"]
    ELSE [sign |-> IF x.v < 0 THEN "-" ELSE "",
          int |-> Abs(x.v) \div SCALE,
          frac |-> (Abs(x.v) % SCALE) * (1000000 \div SCALE)]

\* impl Display for Vertex
Vertex_fmt(v) ==
    <<"Vertex(lat: ", Fmt6(v.latitude), ", lon: ", Fmt6(v.longitude), ")">>

(***************************************************************************)
(* geometries/line.rs                                                      *)
(***************************************************************************)

line_is_valid(starting_vertex, ending_vertex) ==
    ~Vertex_eq(starting_vertex, ending_vertex)

\* Line::new with the two fields filled the wrong way round.
Line_new_swapped(starting_vertex, ending_vertex) ==
    IF ~line_is_valid(starting_vertex, ending_vertex)
    THEN Err(<<"Os vertices de entrada e saida sao iguais: Entrada: ",
               Vertex_fmt(starting_vertex), "; Saida: ",
               Vertex_fmt(ending_vertex)>>)
    ELSE Ok([starting_vertex |-> ending_vertex,
             ending_vertex |-> starting_vertex])

Line_new(starting_vertex, ending_vertex) ==
    IF ~line_is_valid(starting_vertex, ending_vertex)
    THEN Err(<<"Os vertices de entrada e saida sao iguais: Entrada: ",
               Vertex_fmt(starting_vertex), "; Saida: ",
               Vertex_fmt(ending_vertex)>>)
    ELSE Ok([starting_vertex |-> starting_vertex,
             ending_vertex |-> ending_vertex])

\* Line::degrees_to_radians with a constant of its own, less precise, in
\* place of the shared PI.
Line_degrees_to_radians_own_pi(degree) ==
    FDiv(FMul(degree, F(31400)), Num(180))

Line_degrees_to_radians(degree) ==
    FDiv(FMul(degree, F(PI_UNITS)), Num(180))

\* consts::EARTH_RADIUS_KM, the mean radius of the Earth in kilometres.
EARTH_RADIUS_KM == 6371

\* The Haversine formula.
calculate_earth_radius_distance(self) ==
    LET lat1_rad == Line_degrees_to_radians(self.starting_vertex.latitude)
        lat2_rad == Line_degrees_to_radians(self.ending_vertex.latitude)
        lon1_rad == Line_degrees_to_radians(self.starting_vertex.longitude)
        lon2_rad == Line_degrees_to_radians(self.ending_vertex.longitude)
        dist_lat == FSub(lat2_rad, lat1_rad)
        dist_lon == FSub(lon2_rad, lon1_rad)
        a == FAdd(FPowi2(FSin(FDiv(dist_lat, Num(2)))),
                  FMul(FMul(FCos(lat1_rad), FCos(lat2_rad)),
                       FPowi2(FSin(FDiv(dist_lon, Num(2))))))
        c == FMul(Num(2), FAtan2(FSqrt(a), FSqrt(FSub(Num(1), a))))
    IN  FMul(Num(EARTH_RADIUS_KM), c)

\* calculate_euclidean_distance without its square root.
calculate_euclidean_distance_squared(self) ==
    LET dx == FSub(self.ending_vertex.latitude, self.starting_vertex.latitude)
        dy == FSub(self.ending_vertex.longitude, self.starting_vertex.longitude)
    IN  FAdd(FMul(dx, dx), FMul(dy, dy))

calculate_euclidean_distance(self) ==
    LET dx == FSub(self.ending_vertex.latitude, self.starting_vertex.latitude)
        dy == FSub(self.ending_vertex.longitude, self.starting_vertex.longitude)
    IN  FSqrt(FAdd(FMul(dx, dx), FMul(dy, dy)))

(***************************************************************************)
(* geometries/path.rs                                                      *)
(***************************************************************************)

\* enum PathCalcFullDistanceOptions
PathCalcFullDistanceOptions == {"Euclidean", "EarthRadius"}

path_is_valid(last_line, current_line) ==
    Vertex_eq(last_line.ending_vertex, current_line.starting_vertex)

\* The loop of Path::new from index i on; lines[i] of the array is the
\* sequence's element i + 1.
RECURSIVE PathValidate(_, _)
PathValidate(lines, i) ==
    IF i >= Len(lines) THEN Ok([lines |-> lines])
    ELSE IF ~path_is_valid(lines[i], lines[i + 1])
    THEN Err(<<"Caminho inconsistente: linha ", i - 1,
               " nao se conecta com a linha ", i>>)
    ELSE PathValidate(lines, i + 1)

\* Path::new with its loop started at 2: the first pair is never looked at.
Path_new_from_two(lines) == PathValidate(lines, 2)

\* Path::new with its loop run from the last pair down to the first.
RECURSIVE PathValidateDown(_, _)
PathValidateDown(lines, i) ==
    IF i < 1 THEN Ok([lines |-> lines])
    ELSE IF ~path_is_valid(lines[i], lines[i + 1])
    THEN Err(<<"Caminho inconsistente: linha ", i - 1,
               " nao se conecta com a linha ", i>>)
    ELSE PathValidateDown(lines, i - 1)

Path_new_backwards(lines) == PathValidateDown(lines, Len(lines) - 1)

\* Path::new refusing an array without lines.
Path_new_not_empty(lines) ==
    IF Len(lines) = 0 THEN Err(<<"Caminho vazio">>) ELSE PathValidate(lines, 1)

Path_new(lines) == PathValidate(lines, 1)

\* The closure calculate_full_distance maps over the lines.
LineDistance(methodology, line) ==
    IF methodology = "Euclidean"
    THEN calculate_euclidean_distance(line)
    ELSE calculate_earth_radius_distance(line)

\* Sum for f64 over the lines lo .. hi - 1 of the array in order, from acc.
RECURSIVE FoldSum(_, _, _, _, _)
FoldSum(methodology, lines, lo, hi, acc) ==
    IF lo >= hi THEN acc
    ELSE FoldSum(methodology, lines, lo + 1, hi,
                 FAdd(acc, LineDistance(methodology, lines[lo + 1])))

(***************************************************************************)
(* The state: one session of a caller that makes lines, collects them in   *)
(* an array, makes a path of the array and measures it.                    *)
(***************************************************************************)

VARIABLES
    lines,      \* the array of lines collected for Path::new
    line_call,  \* the last call of Line::new: its arguments and its result
    path_call,  \* the call of Path::new: its argument and its result
    calc,       \* calculate_full_distance: the parallel sum in progress
    vin,        \* calculate_earth_radius_distance_vincenty: the call in progress
    hav         \* the last call of calculate_earth_radius_distance_haversine

vars == <<lines, line_call, path_call, calc, vin, hav>>

\* The longest array of lines (the N of Path<N>).
MaxLines == 3

\* The coordinates the callers draw from: f64 values, NaN among them.
VertexA == Vertex_new(Num(0), Num(0))

VertexB == Vertex_new(Num(3), Num(4))

VertexC == Vertex_new(Num(1), Num(1))

VertexNaN == Vertex_new(NaN, Num(0))

Vertices == {VertexA, VertexB, VertexC, VertexNaN}

CalcIdle == [pc |-> "idle"]

VinIdle == [pc |-> "idle"]

Init ==
    /\ lines = <<>>
    /\ line_call = None
    /\ path_call = None
    /\ calc = CalcIdle
    /\ vin = VinIdle
    /\ hav = None

\* Line::new(starting_vertex, ending_vertex); the caller puts the line it
\* gets into its array.
LineNew(starting_vertex, ending_vertex) ==
    /\ path_call = None
    /\ Len(lines) < MaxLines
    /\ LET result == Line_new(starting_vertex, ending_vertex)
       IN  /\ line_call' = [called |-> TRUE,
                            starting_vertex |-> starting_vertex,
                            ending_vertex |-> ending_vertex,
                            result |-> result,
                            distance |-> None]
           /\ lines' = IF result.ok THEN Append(lines, result.val) ELSE lines
    /\ UNCHANGED <<path_call, calc, vin, hav>>

\* The caller measures the line it has just made, by one of the line's two
\* distance methods.
LineDistanceCall(methodology) ==
    /\ path_call = None
    /\ line_call # None
    /\ line_call.result.ok
    /\ line_call.distance = None
    /\ line_call' = [line_call EXCEPT !.distance =
           [called |-> TRUE,
            methodology |-> methodology,
            value |-> LineDistance(methodology, line_call.result.val)]]
    /\ UNCHANGED <<lines, path_call, calc, vin, hav>>

\* Path::new(lines): the array is moved into the call.
PathNew ==
    /\ path_call = None
    /\ path_call' = [called |-> TRUE, lines |-> lines, result |-> Path_new(lines)]
    /\ lines' = <<>>
    /\ UNCHANGED <<line_call, calc, vin, hav>>

\* calculate_full_distance(methodology) starts: par_iter() over the whole
\* array, nothing mapped or summed yet.
CalcStart(methodology) ==
    /\ path_call # None
    /\ path_call.result.ok
    /\ calc.pc # "running"
    /\ calc' = [pc |-> "running",
                methodology |-> methodology,
                chunks |-> <<[lo |-> 0,
                              hi |-> Len(path_call.result.val.lines),
                              done |-> FALSE,
                              sum |-> Num(0)]>>,
                splits |-> 0]
    /\ UNCHANGED <<lines, line_call, path_call, vin, hav>>

\* seq with its element i replaced by the elements of by.
Splice(seq, i, n, by) ==
    SubSeq(seq, 1, i - 1) \o by \o SubSeq(seq, i + n, Len(seq))

\* The split with the second half begun one line late.
CalcSplit_gap(i) ==
    /\ calc.pc = "running"
    /\ i \in 1..Len(calc.chunks)
    /\ LET c == calc.chunks[i]
           mid == c.lo + (c.hi - c.lo) \div 2
       IN  /\ ~c.done
           /\ c.hi - c.lo >= 2
           /\ calc' = [calc EXCEPT
                  !.chunks = Splice(calc.chunks, i, 1,
                                    <<[c EXCEPT !.hi = mid],
                                      [c EXCEPT !.lo = mid + 1]>>),
                  !.splits = calc.splits + 1]
    /\ UNCHANGED <<lines, line_call, path_call, vin, hav>>

\* The parallel iterator splits a part of the array in two halves, for two
\* workers.
CalcSplit(i) ==
    /\ calc.pc = "running"
    /\ i \in 1..Len(calc.chunks)
    /\ LET c == calc.chunks[i]
           mid == c.lo + (c.hi - c.lo) \div 2
       IN  /\ ~c.done
           /\ c.hi - c.lo >= 2
           /\ calc' = [calc EXCEPT
                  !.chunks = Splice(calc.chunks, i, 1,
                                    <<[c EXCEPT !.hi = mid],
                                      [c EXCEPT !.lo = mid]>>),
                  !.splits = calc.splits + 1]
    /\ UNCHANGED <<lines, line_call, path_call, vin, hav>>

\* A worker maps and sums its part of the array, in order, from 0.0.
CalcFold(i) ==
    /\ calc.pc = "running"
    /\ i \in 1..Len(calc.chunks)
    /\ LET c == calc.chunks[i]
       IN  /\ ~c.done
           /\ calc' = [calc EXCEPT !.chunks[i] =
                  [c EXCEPT !.done = TRUE,
                            !.sum = FoldSum(calc.methodology,
                                            path_call.result.val.lines,
                                            c.lo, c.hi, Num(0))]]
    /\ UNCHANGED <<lines, line_call, path_call, vin, hav>>

\* The sums of two neighbouring parts, both finished, are added.
CalcJoin(i) ==
    /\ calc.pc = "running"
    /\ i \in 1..(Len(calc.chunks) - 1)
    /\ LET l == calc.chunks[i]
           r == calc.chunks[i + 1]
       IN  /\ l.done /\ r.done
           /\ calc' = [calc EXCEPT !.chunks =
                  Splice(calc.chunks, i, 2,
                         <<[lo |-> l.lo, hi |-> r.hi, done |-> TRUE,
                            sum |-> FAdd(l.sum, r.sum)]>>)]
    /\ UNCHANGED <<lines, line_call, path_call, vin, hav>>

\* sum() returns once one sum covers the whole array.
CalcReturn ==
    /\ calc.pc = "running"
    /\ Len(calc.chunks) = 1
    /\ calc.chunks[1].done
    /\ calc' = [pc |-> "done",
                methodology |-> calc.methodology,
                splits |-> calc.splits,
                result |-> calc.chunks[1].sum]
    /\ UNCHANGED <<lines, line_call, path_call, vin, hav>>

Next ==
    \/ \E p, q \in Vertices : LineNew(p, q)
    \/ \E m \in PathCalcFullDistanceOptions : LineDistanceCall(m)
    \/ PathNew
    \/ \E m \in PathCalcFullDistanceOptions : CalcStart(m)
    \/ \E i \in 1..MaxLines : CalcSplit(i)
    \/ \E i \in 1..MaxLines : CalcFold(i)
    \/ \E i \in 1..MaxLines : CalcJoin(i)
    \/ CalcReturn

Spec == Init /\ [][Next]_vars

(***************************************************************************)
(* math/conversion.rs, math/distance.rs                                    *)
(***************************************************************************)

degrees_to_radians(degree) ==
    FDiv(FMul(degree, F(PI_UNITS)), Num(180))

\* consts::FLATTENING of the ellipsoid, 1 / 298.257223563, in units.
FLATTENING == 34

\* consts::SEMI_MAJOR_AXIS_LENGTH and consts::SEMI_MINOR_AXIS_LENGTH of the
\* ellipsoid, 6378137.0 m and 6356752.314245 m, in units of 100 m.
SEMI_MAJOR_AXIS_LENGTH == 63781

SEMI_MINOR_AXIS_LENGTH == 63568

\* let mut iter_limit = 100
ITER_LIMIT == 100

\* The convergence tolerance 1e-12 of lambda, at the model's resolution: the
\* smallest positive number.
TOLERANCE == 1

\* calculate_earth_radius_distance_vincenty up to its loop: the radians, the
\* first lambda, the reduced latitudes.
VincentyEnter(starting_vertex, ending_vertex) ==
    LET lat1_rad == degrees_to_radians(starting_vertex.latitude)
        lat2_rad == degrees_to_radians(ending_vertex.latitude)
        lon1_rad == degrees_to_radians(starting_vertex.longitude)
        lon2_rad == degrees_to_radians(ending_vertex.longitude)
        u1 == FAtan(FMul(FSub(Num(1), F(FLATTENING)), FTan(lat1_rad)))
        u2 == FAtan(FMul(FSub(Num(1), F(FLATTENING)), FTan(lat2_rad)))
    IN  [pc |-> "loop",
         starting_vertex |-> starting_vertex,
         ending_vertex |-> ending_vertex,
         lon1_rad |-> lon1_rad,
         lon2_rad |-> lon2_rad,
         lambda |-> FSub(lon2_rad, lon1_rad),
         lambda_prev |-> NaN,
         iter_limit |-> ITER_LIMIT,
         sin_u1 |-> FSin(u1),
         cos_u1 |-> FCos(u1),
         sin_u2 |-> FSin(u2),
         cos_u2 |-> FCos(u2),
         cos2_sigma_m |-> NaN,
         sin_sigma |-> NaN,
         cos_sigma |-> NaN,
         sigma |-> NaN,
         result |-> None,
         exit |-> "none",
         started |-> 0,
         unconverged |-> 0]

\* The exit test taken one iteration early.
LimitReached_early(iter_limit) == iter_limit <= 1

\* The exit test taken one iteration late.
LimitReached_late(iter_limit) == iter_limit = -1

\* The loop's exit test on the count of iterations left.
LimitReached(iter_limit) == iter_limit = 0

\* The loop's convergence test on two successive values of lambda.
Converged(lambda, lambda_prev) ==
    FLt(FAbs(FSub(lambda, lambda_prev)), F(TOLERANCE))

\* The test for coincident points with a tolerance in place of the exact
\* comparison.
CoincidentPoints_tolerance(sin_sigma) == FLt(sin_sigma, F(300))

\* The test for coincident points left out.
CoincidentPoints_never(sin_sigma) == FALSE

\* The test for coincident points with the wrong comparison.
CoincidentPoints_negative(sin_sigma) == FLt(sin_sigma, Num(0))

\* The loop's test for coincident points.
CoincidentPoints(sin_sigma) == FEq(sin_sigma, Num(0))

\* One pass through the loop of the function in state v.
VincentyLoop(v) ==
    IF LimitReached(v.iter_limit)
    THEN [v EXCEPT !.pc = "returned",
                   !.exit = "limit",
                   !.result = Err("Convergencia nao atingida")]
    ELSE
    LET sin_lambda == FSin(v.lambda)
        cos_lambda == FCos(v.lambda)
        sin_sigma ==
            FSqrt(FAdd(FPowi2(FMul(v.cos_u2, sin_lambda)),
                       FPowi2(FSub(FMul(v.cos_u1, v.sin_u2),
                                   FMul(FMul(v.sin_u1, v.cos_u2), cos_lambda)))))
        cos_sigma == FAdd(FMul(v.sin_u1, v.sin_u2),
                          FMul(FMul(v.cos_u1, v.cos_u2), cos_lambda))
        sigma == FAtan2(sin_sigma, cos_sigma)
        sin_alpha == FDiv(FMul(FMul(v.cos_u1, v.cos_u2), sin_lambda), sin_sigma)
        cos2_sigma_m == FSub(Num(1), FPowi2(sin_alpha))
        c == FMul(FMul(FDiv(F(FLATTENING), Num(16)), cos2_sigma_m),
                  FAdd(Num(4),
                       FMul(F(FLATTENING),
                            FSub(Num(4), FMul(Num(3), cos2_sigma_m)))))
        lambda ==
            FAdd(FSub(v.lon2_rad, v.lon1_rad),
                 FMul(FMul(FMul(FSub(Num(1), c), F(FLATTENING)), sin_alpha),
                      FAdd(sigma,
                           FMul(FMul(c, sin_sigma),
                                FAdd(cos2_sigma_m,
                                     FMul(FMul(c, cos_sigma),
                                          FAdd(Num(-1),
                                               FMul(Num(2), cos2_sigma_m))))))))
        w == [v EXCEPT !.started = v.started + 1, !.sin_sigma = sin_sigma]
    IN  IF CoincidentPoints(sin_sigma)
        THEN [w EXCEPT !.pc = "returned",
                       !.exit = "zero",
                       !.result = Ok(Num(0))]
        ELSE LET x == [w EXCEPT !.cos_sigma = cos_sigma,
                                !.sigma = sigma,
                                !.cos2_sigma_m = cos2_sigma_m,
                                !.lambda_prev = v.lambda,
                                !.lambda = lambda]
             IN  IF Converged(lambda, v.lambda)
                 THEN [x EXCEPT !.pc = "converged", !.exit = "break"]
                 ELSE [x EXCEPT !.iter_limit = v.iter_limit - 1,
                                !.unconverged = v.unconverged + 1]

\* After the loop: the distance from the converged values.
VincentyDistance(v) ==
    LET a == F(SEMI_MAJOR_AXIS_LENGTH)
        b == F(SEMI_MINOR_AXIS_LENGTH)
        u_squared ==
            FDiv(FMul(v.cos2_sigma_m, FSub(FMul(a, a), FMul(b, b))),
                 FMul(b, b))
        a_term ==
            FAdd(Num(1),
                 FMul(FDiv(u_squared, Num(16384)),
                      FAdd(Num(4096),
                           FMul(u_squared,
                                FAdd(Num(-768),
                                     FMul(u_squared,
                                          FSub(Num(320),
                                               FMul(Num(175), u_squared))))))))
        b_term ==
            FMul(FDiv(u_squared, Num(1024)),
                 FAdd(Num(256),
                      FMul(u_squared,
                           FAdd(Num(-128),
                                FMul(u_squared,
                                     FSub(Num(74),
                                          FMul(Num(47), u_squared)))))))
        delta_sigma ==
            FMul(FMul(b_term, v.sin_sigma),
                 FAdd(v.cos2_sigma_m,
                      FMul(FDiv(b_term, Num(4)),
                           FSub(FMul(v.cos_sigma,
                                     FAdd(Num(-1),
                                          FMul(Num(2), FPowi2(v.cos2_sigma_m)))),
                                FMul(FMul(FMul(FDiv(b_term, Num(6)),
                                               v.cos2_sigma_m),
                                          FAdd(Num(-3),
                                               FMul(Num(4), FPowi2(v.sin_sigma)))),
                                     FAdd(Num(-3),
                                          FMul(Num(4),
                                               FPowi2(v.cos2_sigma_m))))))))
    IN  FMul(FMul(b, a_term), FSub(v.sigma, delta_sigma))

\* The points the callers of the Vincenty function draw from: those of the
\* lines, a point nearly antipodal to the first of them and a point so near
\* the first of them that the squares of the loop round to zero.
VertexD == Vertex_new(F(5000), F(1797000))

VertexE == Vertex_new(F(0), F(3000))

VincentyVertices == Vertices \cup {VertexD, VertexE}

\* The call: the function runs up to its loop.
VincentyCall(starting_vertex, ending_vertex) ==
    /\ vin.pc = "idle"
    /\ vin' = VincentyEnter(starting_vertex, ending_vertex)
    /\ UNCHANGED <<lines, line_call, path_call, calc, hav>>

\* One iteration of the loop.
VincentyIterate ==
    /\ vin.pc = "loop"
    /\ vin' = VincentyLoop(vin)
    /\ UNCHANGED <<lines, line_call, path_call, calc, hav>>

\* The loop was left by break: the distance is computed and returned.
VincentyFinish ==
    /\ vin.pc = "converged"
    /\ vin' = [vin EXCEPT !.pc = "returned",
                          !.result = Ok(VincentyDistance(vin))]
    /\ UNCHANGED <<lines, line_call, path_call, calc, hav>>

NextVincenty ==
    \/ \E p, q \in VincentyVertices : VincentyCall(p, q)
    \/ VincentyIterate
    \/ VincentyFinish

SpecVincenty == Init /\ [][NextVincenty]_vars

(***************************************************************************)
(* math/distance.rs: the Haversine function                                *)
(***************************************************************************)

\* calculate_earth_radius_distance_haversine(starting_vertex, ending_vertex)
calculate_earth_radius_distance_haversine(starting_vertex, ending_vertex) ==
    LET lat1_rad == degrees_to_radians(starting_vertex.latitude)
        lat2_rad == degrees_to_radians(ending_vertex.latitude)
        lon1_rad == degrees_to_radians(starting_vertex.longitude)
        lon2_rad == degrees_to_radians(ending_vertex.longitude)
        dist_lat == FSub(lat2_rad, lat1_rad)
        dist_lon == FSub(lon2_rad, lon1_rad)
        a == FAdd(FPowi2(FSin(FDiv(dist_lat, Num(2)))),
                  FMul(FMul(FCos(lat1_rad), FCos(lat2_rad)),
                       FPowi2(FSin(FDiv(dist_lon, Num(2))))))
        c == FMul(Num(2), FAtan2(FSqrt(a), FSqrt(FSub(Num(1), a))))
    IN  FMul(Num(EARTH_RADIUS_KM), c)

\* The points the callers of the Haversine function draw from: those of the
\* Vincenty function and a grid over the globe, a pole and the antimeridian
\* included.
HaversineLatitudes == {-60, 0, 45, 90}

HaversineLongitudes == {-120, 0, 90, 180}

HaversineVertices ==
    VincentyVertices
    \cup {Vertex_new(Num(lat), Num(lon)) :
              lat \in HaversineLatitudes, lon \in HaversineLongitudes}

\* A call of the function.
HaversineCall(starting_vertex, ending_vertex) ==
    /\ hav = None
    /\ hav' = [called |-> TRUE,
               starting_vertex |-> starting_vertex,
               ending_vertex |-> ending_vertex,
               result |-> calculate_earth_radius_distance_haversine(
                              starting_vertex, ending_vertex)]
    /\ UNCHANGED <<lines, line_call, path_call, calc, vin>>

NextHaversine ==
    \E p, q \in HaversineVertices : HaversineCall(p, q)

SpecHaversine == Init /\ [][NextHaversine]_vars

(***************************************************************************)
(* Properties                                                              *)
(***************************************************************************)

\* Both coordinates of a vertex are numbers.
IsNumeric(vertex) == ~vertex.latitude.nan /\ ~vertex.longitude.nan

\* The text of the degenerate-segment failure for two vertices.
DegenerateText(starting_vertex, ending_vertex) ==
    <<"Os vertices de entrada e saida sao iguais: Entrada: ",
      Vertex_fmt(starting_vertex), "; Saida: ", Vertex_fmt(ending_vertex)>>

\* C1: for every Vertex p, Line::new(p, p) returns the degenerate-segment
\* error, whose text names both vertices in their textual form, and never a
\* Line.
C1_SameVertexRejected ==
    (line_call # None /\ line_call.starting_vertex = line_call.ending_vertex)
    => /\ ~line_call.result.ok
       /\ line_call.result =
              Err(DegenerateText(line_call.starting_vertex,
                                 line_call.ending_vertex))

\* C2: for vertices p != q (the != of Vertex), Line::new(p, q) and
\* Line::new(q, p) both succeed, and the Line returned holds the first
\* argument as starting_vertex and the second as ending_vertex.
C2_DistinctVerticesAccepted ==
    (line_call # None
     /\ ~Vertex_eq(line_call.starting_vertex, line_call.ending_vertex))
    => /\ line_call.result.ok
       /\ line_call.result.val.starting_vertex = line_call.starting_vertex
       /\ line_call.result.val.ending_vertex = line_call.ending_vertex
       /\ Line_new(line_call.ending_vertex, line_call.starting_vertex).ok

C2_Witness ==
    /\ line_call # None
    /\ line_call.starting_vertex = VertexB
    /\ line_call.ending_vertex = VertexA
    /\ line_call.result.ok

\* Line i of the array ends where line i + 1 starts (i counted from 1).
Adjacent(ls, i) == Vertex_eq(ls[i].ending_vertex, ls[i + 1].starting_vertex)

Connected(ls) == \A i \in 1..(Len(ls) - 1) : Adjacent(ls, i)

\* C3: Path::new(lines) succeeds if and only if every line ends where the
\* next one starts; the Path it returns holds the array given, so every Path
\* constructed is connected; arrays of 0 or 1 lines are always accepted.
C3_PathConnectivity ==
    path_call # None
    => /\ path_call.result.ok <=> Connected(path_call.lines)
       /\ path_call.result.ok
              => /\ path_call.result.val.lines = path_call.lines
                 /\ Connected(path_call.result.val.lines)
       /\ Len(path_call.lines) <= 1 => path_call.result.ok

C3_Witness ==
    /\ path_call # None
    /\ Len(path_call.lines) = 3
    /\ path_call.result.ok

\* C4: when Path::new fails, its error names the pair (i - 1, i) of the
\* smallest index i whose line does not start where line i - 1 ends, also
\* when later pairs are broken too.
C4_FirstBrokenAdjacency ==
    (path_call # None /\ ~path_call.result.ok)
    => \E i \in 1..(Len(path_call.lines) - 1) :
           /\ ~Adjacent(path_call.lines, i)
           /\ \A j \in 1..(i - 1) : Adjacent(path_call.lines, j)
           /\ path_call.result =
                  Err(<<"Caminho inconsistente: linha ", i - 1,
                        " nao se conecta com a linha ", i>>)

C4_Witness ==
    /\ path_call # None
    /\ Len(path_call.lines) = 3
    /\ ~Adjacent(path_call.lines, 1)
    /\ ~Adjacent(path_call.lines, 2)
    /\ ~path_call.result.ok
    /\ path_call.result.err[2] = 0
    /\ path_call.result.err[4] = 1

\* The lines of the path being measured.
PathLines == path_call.result.val.lines

\* C5: calculate_full_distance returns the sum of the methodology's distance
\* over all lines of the path, each line counted once, whichever parts the
\* workers split the array into and in whichever order they sum and combine
\* them: the parts always tile the array, each finished part holds the sum
\* of its lines, and the value returned is the sum of them all.
C5_FullDistanceIsSum ==
    /\ calc.pc = "running"
       => /\ calc.chunks[1].lo = 0
          /\ calc.chunks[Len(calc.chunks)].hi = Len(PathLines)
          /\ \A i \in 1..(Len(calc.chunks) - 1) :
                 calc.chunks[i].hi = calc.chunks[i + 1].lo
          /\ \A i \in 1..Len(calc.chunks) :
                 /\ calc.chunks[i].lo <= calc.chunks[i].hi
                 /\ calc.chunks[i].done
                        => calc.chunks[i].sum =
                               FoldSum(calc.methodology, PathLines,
                                       calc.chunks[i].lo, calc.chunks[i].hi,
                                       Num(0))
    /\ calc.pc = "done"
       => calc.result =
              FoldSum(calc.methodology, PathLines, 0, Len(PathLines), Num(0))

C5_Witness ==
    /\ calc.pc = "done"
    /\ Len(PathLines) = 3
    /\ calc.splits = 2
    /\ calc.methodology = "EarthRadius"
    /\ FLt(Num(0), calc.result)

\* C6: Path::new accepts the array without lines, and calculate_full_distance
\* of the empty path is 0.0 under either methodology.
C6_EmptyPath ==
    /\ (path_call # None /\ path_call.lines = <<>>) => path_call.result.ok
    /\ (calc.pc = "done" /\ path_call.lines = <<>>)
       => FEq(calc.result, Num(0))

C6_Witness ==
    /\ calc.pc = "done"
    /\ path_call.lines = <<>>
    /\ calc.methodology = "EarthRadius"
    /\ FEq(calc.result, Num(0))

\* C7: the Vincenty function returns the convergence error exactly when 100
\* iterations of the loop body have completed and none of them met the
\* convergence test or the sin_sigma == 0 test; Ok is returned either as 0.0
\* by the sin_sigma == 0 test or as a distance from a lambda that met the
\* convergence test, the 100th iteration included.
C7_ErrorOnlyAfterTheCap ==
    /\ vin.pc # "idle" => vin.started <= ITER_LIMIT
    /\ vin.pc = "returned"
       => /\ ~vin.result.ok <=> vin.unconverged = ITER_LIMIT
          /\ ~vin.result.ok
                 => /\ vin.started = ITER_LIMIT
                    /\ vin.exit = "limit"
                    /\ vin.result = Err("Convergencia nao atingida")
          /\ vin.result.ok
                 => /\ vin.started = vin.unconverged + 1
                    /\ \/ /\ vin.exit = "zero"
                          /\ FEq(vin.sin_sigma, Num(0))
                          /\ vin.result = Ok(Num(0))
                       \/ /\ vin.exit = "break"
                          /\ Converged(vin.lambda, vin.lambda_prev)

C7_Witness ==
    /\ vin.pc = "returned"
    /\ vin.starting_vertex = VertexA
    /\ vin.ending_vertex = VertexD
    /\ ~vin.result.ok
    /\ vin.unconverged = ITER_LIMIT

\* The call of the Vincenty function on a point and itself returns Ok(0.0)
\* in the first iteration of its loop, by the sin_sigma == 0 test, with the
\* count of iterations left untouched.
ZeroAtOnce ==
    /\ vin.started <= 1
    /\ vin.pc # "converged"
    /\ vin.pc = "loop" => vin.started = 0
    /\ vin.pc = "returned"
       => /\ vin.result = Ok(Num(0))
          /\ vin.exit = "zero"
          /\ vin.started = 1
          /\ vin.iter_limit = ITER_LIMIT

\* C8, as claimed: for every Vertex p, the Vincenty function of (p, p)
\* returns Ok(0.0) in the first iteration of the loop, by the sin_sigma == 0
\* test, without consuming the iteration cap.
C8_SelfDistanceZero ==
    (vin.pc # "idle" /\ vin.starting_vertex = vin.ending_vertex)
    => ZeroAtOnce

\* C8, amended: the same for every Vertex p whose coordinates are numbers.
C8_SelfDistanceZeroOfNumbers ==
    (vin.pc # "idle" /\ vin.starting_vertex = vin.ending_vertex
     /\ IsNumeric(vin.starting_vertex))
    => ZeroAtOnce

C8_Witness ==
    /\ vin.pc = "returned"
    /\ vin.starting_vertex = VertexB
    /\ vin.ending_vertex = VertexB
    /\ vin.result = Ok(Num(0))
    /\ vin.started = 1

\* The sum of the squared coordinate differences of a line.
SquaredDifferences(line) ==
    LET dx == FSub(line.ending_vertex.latitude, line.starting_vertex.latitude)
        dy == FSub(line.ending_vertex.longitude, line.starting_vertex.longitude)
    IN  FAdd(FMul(dx, dx), FMul(dy, dy))

\* The line just made has been measured by calculate_euclidean_distance, and
\* its coordinates are numbers.
EuclideanMeasured ==
    /\ line_call # None
    /\ line_call.distance # None
    /\ line_call.distance.methodology = "Euclidean"
    /\ IsNumeric(line_call.starting_vertex)
    /\ IsNumeric(line_call.ending_vertex)

\* C9, as claimed: the square of calculate_euclidean_distance equals the sum
\* of the squared coordinate differences of the line, and for (0,0) to (3,4)
\* the distance is exactly 5.
C9_SquareIsSumOfSquares ==
    EuclideanMeasured
    => /\ FEq(FMul(line_call.distance.value, line_call.distance.value),
              SquaredDifferences(line_call.result.val))
       /\ (line_call.starting_vertex = VertexA
           /\ line_call.ending_vertex = VertexB)
              => line_call.distance.value = Num(5)

\* C9, amended: calculate_euclidean_distance is the square root of the sum
\* of the squared coordinate differences rounded to a representable value:
\* it is not negative, its square differs from the sum by no more than the
\* rounding of the root allows, it is exactly n when the sum is n * n, and
\* for (0,0) to (3,4) it is exactly 5.
C9_RoundedRootOfSumOfSquares ==
    EuclideanMeasured
    => LET r == line_call.distance.value
           s == SquaredDifferences(line_call.result.val)
       IN  /\ ~r.nan /\ r.v >= 0
           /\ Abs(FMul(r, r).v - s.v) <= r.v \div SCALE + 1
           /\ \A n \in 0..(s.v \div SCALE) : s = Num(n * n) => r = Num(n)
           /\ (line_call.starting_vertex = VertexA
               /\ line_call.ending_vertex = VertexB)
                  => r = Num(5)

C9_Witness ==
    /\ EuclideanMeasured
    /\ line_call.starting_vertex = VertexA
    /\ line_call.ending_vertex = VertexB
    /\ line_call.distance.value = Num(5)

\* C10: the Euclidean distance of a line is that of the line reversed, and
\* for all A != B the path of the line A to B followed by the line B to A is
\* accepted by Path::new, its Euclidean full distance being twice the
\* Euclidean distance of A to B.
C10_ClosedPath ==
    (/\ path_call # None
     /\ Len(path_call.lines) = 2
     /\ path_call.lines[2].starting_vertex = path_call.lines[1].ending_vertex
     /\ path_call.lines[2].ending_vertex = path_call.lines[1].starting_vertex)
    => /\ calculate_euclidean_distance(path_call.lines[1])
              = calculate_euclidean_distance(path_call.lines[2])
       /\ path_call.result.ok
       /\ (calc.pc = "done" /\ calc.methodology = "Euclidean")
              => calc.result =
                     FMul(Num(2), calculate_euclidean_distance(path_call.lines[1]))

\* C12: the Vincenty function terminates on every input. The loop body is
\* executed at most 100 times: iter_limit starts at 100, is never negative
\* and never grows, and every step of the loop either returns, leaves the
\* loop by break or starts the next iteration with iter_limit one less; the
\* step after a break returns Ok, and when iter_limit is 0 the next step
\* returns the convergence error.
C12_VincentyTerminates ==
    /\ [](vin.pc # "idle"
           => /\ vin.started <= ITER_LIMIT
              /\ vin.iter_limit = ITER_LIMIT - vin.unconverged
              /\ vin.iter_limit >= 0
              /\ vin.pc = "loop" => vin.started = vin.unconverged)
    /\ [][vin.pc = "loop"
            => \/ /\ vin'.pc = "returned"
                  /\ vin'.iter_limit = vin.iter_limit
                  /\ \/ vin'.result.ok
                     \/ /\ vin.iter_limit = 0
                        /\ vin'.result = Err("Convergencia nao atingida")
               \/ /\ vin'.pc = "converged"
                  /\ vin'.iter_limit = vin.iter_limit
               \/ /\ vin'.pc = "loop"
                  /\ vin.iter_limit > 0
                  /\ vin'.iter_limit = vin.iter_limit - 1]_vars
    /\ [][vin.pc = "converged"
            => vin'.pc = "returned" /\ vin'.result.ok]_vars

C12_Witness ==
    /\ vin.pc = "returned"
    /\ vin.starting_vertex = VertexNaN
    /\ vin.started = ITER_LIMIT
    /\ vin.iter_limit = 0
    /\ vin.exit = "limit"

\* sin_sigma as the loop body computes it from the lambda of state v.
SinSigmaOf(v) ==
    FSqrt(FAdd(FPowi2(FMul(v.cos_u2, FSin(v.lambda))),
               FPowi2(FSub(FMul(v.cos_u1, v.sin_u2),
                           FMul(FMul(v.sin_u1, v.cos_u2), FCos(v.lambda))))))

\* C13: in every iteration of the loop the division by sin_sigma is reached
\* only with sin_sigma != 0. The sin_sigma an iteration holds is the one
\* computed from its current lambda; when it equals 0 the iteration returns
\* Ok(0.0) with lambda and its other values untouched, and every iteration
\* that went on to the division did so with sin_sigma != 0.
C13_DivisionGuarded ==
    /\ []((vin.pc # "idle" /\ vin.started >= 1 /\ vin.exit # "zero")
           => ~FEq(vin.sin_sigma, Num(0)))
    /\ [][(vin.pc = "loop" /\ vin'.started = vin.started + 1)
            => /\ vin'.sin_sigma = SinSigmaOf(vin)
               /\ FEq(vin'.sin_sigma, Num(0))
                      => /\ vin'.pc = "returned"
                         /\ vin'.exit = "zero"
                         /\ vin'.result = Ok(Num(0))
                         /\ vin'.lambda = vin.lambda
                         /\ vin'.lambda_prev = vin.lambda_prev
                         /\ vin'.cos2_sigma_m = vin.cos2_sigma_m
               /\ ~FEq(vin'.sin_sigma, Num(0))
                      => /\ vin'.exit # "zero"
                         /\ vin'.lambda_prev = vin.lambda]_vars

C13_Witness ==
    /\ vin.pc = "loop"
    /\ vin.starting_vertex = VertexA
    /\ vin.ending_vertex = VertexB
    /\ vin.started = 1
    /\ vin.exit = "none"
    /\ FLt(Num(0), vin.sin_sigma)
    /\ vin.lambda_prev = FSub(vin.lon2_rad, vin.lon1_rad)

\* The two vertices denote one point of the surface: the same latitude, and
\* the same longitude up to whole turns unless the latitude is a pole.
SameSurfacePoint(p, q) ==
    /\ IsNumeric(p) /\ IsNumeric(q)
    /\ p.latitude = q.latitude
    /\ \/ (p.longitude.v - q.longitude.v) % (360 * SCALE) = 0
       \/ Abs(p.latitude.v) = 90 * SCALE

C15_HaversinesAgree ==
    hav # None
    => LET line == Line_new(hav.starting_vertex, hav.ending_vertex)
       IN  line.ok
              => hav.result = calculate_earth_radius_distance(line.val)

C15_Witness ==
    /\ hav # None
    /\ hav.starting_vertex = VertexA
    /\ hav.ending_vertex = VertexB
    /\ Line_new(VertexA, VertexB).ok
    /\ FLt(Num(0), hav.result)
    /\ hav.result = calculate_earth_radius_distance(Line_new(VertexA, VertexB).val)

=============================================================================
